---- MODULE Spec2Model ----
(***************************************************************************)
(* The persistent schema of the artisan marketplace (src/architecture.py)  *)
(* as a state machine over the database tables.  A table is a set of rows  *)
(* (records with an id); a nullable foreign key holds NULL or the id of a  *)
(* row.  The storage engine is the one Django talks to: every statement is *)
(* committed on its own (autocommit; the source opens no transaction), a   *)
(* unique constraint rejects an INSERT/UPDATE with IntegrityError, and     *)
(* Model.delete() collects and removes the rows reached through CASCADE    *)
(* keys and nulls the SET_NULL keys.                                       *)
(***************************************************************************)
EXTENDS Integers, Sequences, FiniteSets, TLC

VARIABLES users, roles, profiles, works, images, user_feeds, artisan_feeds,
          comments, reactions, reports, proposals,
          nulls_distinct, pc, inst, last

tables == <<users, roles, profiles, works, images, user_feeds, artisan_feeds,
            comments, reactions, reports, proposals>>
vars == <<users, roles, profiles, works, images, user_feeds, artisan_feeds,
          comments, reactions, reports, proposals, nulls_distinct, pc, inst,
          last>>

\* ------------------------------------------------------------------ bounds
MaxUsers == 2
MaxRoles == 3
NumProcs == 2
\* Rows per table (other than users and roles), rows in all tables together
\* (for the slug and engagement, the proposal and the delete specifications),
\* and characters in a text input.
MaxRows == 2
MaxTotal == 3
EngageTotal == 4
ProposalTotal == 6
CascadeTotal == 5
MaxLen == 1

NULL == 0
UserIds == 1..MaxUsers
RoleIds == 1..MaxRoles
Procs == 1..NumProcs
RowIds == 1..MaxRows

\* Two of the eleven ROLE_CHOICES; the code treats every role_type alike.
RoleTypes == {"PLUMBER", "ELECTRICIAN"}

\* A username, as a sequence of characters.
DefaultUsername == <<"a", "1">>

Ids(rows) == {r.id : r \in rows}
Row(rows, i) == CHOOSE r \in rows : r.id = i
Min(S) == CHOOSE x \in S : \A y \in S : x <= y
\* The id a new instance gets (uuid.uuid4): one no stored row has.
Fresh(rows) == RowIds \ Ids(rows)
TotalRows ==
    Cardinality(users) + Cardinality(roles) + Cardinality(profiles)
    + Cardinality(works) + Cardinality(images) + Cardinality(user_feeds)
    + Cardinality(artisan_feeds) + Cardinality(comments)
    + Cardinality(reactions) + Cardinality(reports) + Cardinality(proposals)
RoomFor(n) == TotalRows < n

\* ------------------------------------------------------- the last operation
\* History variable: the operation that completed last, its outcome, the row
\* (or user) it was about, its argument, and for a delete the rows removed
\* and the reports whose reviewed_by was nulled.  pre is, for a
\* sequential Role.save, the roles as they were when the call began ({} for
\* every other operation).
NoArg == [id |-> NULL]
Done(op, outcome, key, arg, pre) ==
    [op |-> op, outcome |-> outcome, key |-> key, arg |-> arg, pre |-> pre,
     removed |-> {}, nulled |-> {}]

\* ------------------------------------------------------------------- User
CreateUser(u, name) ==
    /\ u \notin Ids(users)
    /\ users' = users \cup {[id |-> u, username |-> name]}
    /\ last' = Done("User.create", "ok", u, NoArg, {})
    /\ UNCHANGED <<roles, profiles, works, images, user_feeds, artisan_feeds,
                   comments, reactions, reports, proposals, nulls_distinct,
                   pc, inst>>

\* ------------------------------------------------------------------- Role
NoInst == [id |-> NULL, user |-> NULL, role_type |-> "", is_primary |-> FALSE,
           adding |-> FALSE]

RoleRow(i) == [id |-> i.id, user |-> i.user, role_type |-> i.role_type,
               is_primary |-> i.is_primary]

\* Role.objects.filter(user=u, is_primary=True).update(is_primary=False):
\* one UPDATE statement.
Role_update_keepsPrimary(rs, u) == rs
Role_update(rs, u) ==
    {IF r.user = u /\ r.is_primary THEN [r EXCEPT !.is_primary = FALSE] ELSE r
       : r \in rs}

\* unique_together = [['user', 'role_type']]: another row holds the pair.
Role_unique_together(rs, i) ==
    \E r \in rs : r.id # i.id /\ r.user = i.user /\ r.role_type = i.role_type

\* super().save(): INSERT for a new instance, UPDATE by primary key for a
\* loaded one (INSERT when the UPDATE matches no row).  The statement fails
\* with IntegrityError on the unique pair or on a user that is not stored,
\* and then writes nothing.
Role_super_save(rs, i) ==
    IF Role_unique_together(rs, i) \/ i.user \notin Ids(users)
    THEN [rows |-> rs, outcome |-> "IntegrityError"]
    ELSE [rows |-> {r \in rs : r.id # i.id} \cup {RoleRow(i)}, outcome |-> "ok"]

\* Role.save() run to completion with no other statement in between.
Role_save_result_alwaysDemotes(rs, i) ==
    Role_super_save(Role_update(rs, i.user), i)
Role_save_result(rs, i) ==
    Role_super_save(IF i.is_primary THEN Role_update(rs, i.user) ELSE rs, i)

PendingRoleIds == {inst[p].id : p \in Procs}
FreshRoleIds == RoleIds \ (Ids(roles) \cup PendingRoleIds)

UNCHANGED_nonRole ==
    UNCHANGED <<users, profiles, works, images, user_feeds, artisan_feeds,
                comments, reactions, reports, proposals, nulls_distinct>>

\* Role.save(), sequential: the whole call is one step.
Role_save(i) ==
    /\ \A p \in Procs : pc[p] = "idle"
    /\ LET s == Role_save_result(roles, i)
       IN /\ roles' = s.rows
          /\ last' = Done("Role.save", s.outcome, i.id, i, roles)
    /\ UNCHANGED_nonRole
    /\ UNCHANGED <<pc, inst>>

\* The instances a caller passes to Role.save(): a new Role(...), or a stored
\* role with is_primary and role_type assigned.
NewRoleInputs ==
    IF FreshRoleIds = {} THEN {}
    ELSE {[id |-> Min(FreshRoleIds), user |-> u, role_type |-> t,
           is_primary |-> b, adding |-> TRUE]
            : u \in Ids(users), t \in RoleTypes, b \in BOOLEAN}
LoadedRoleInputs ==
    {[id |-> r.id, user |-> r.user, role_type |-> t, is_primary |-> b,
      adding |-> FALSE] : r \in roles, t \in RoleTypes, b \in BOOLEAN}

\* --- Role.save() as concurrent requests run it: the caller builds or loads
\* the instance, then save() issues its two statements one after the other.
Role_new(p, u, t, b) ==
    /\ pc[p] = "idle"
    /\ u \in Ids(users)
    /\ FreshRoleIds # {}
    /\ inst' = [inst EXCEPT ![p] =
                  [id |-> Min(FreshRoleIds), user |-> u, role_type |-> t,
                   is_primary |-> b, adding |-> TRUE]]
    /\ pc' = [pc EXCEPT ![p] = "save"]
    /\ UNCHANGED <<roles, last>>
    /\ UNCHANGED_nonRole

Role_get(p, r, b) ==
    /\ pc[p] = "idle"
    /\ r \in roles
    /\ inst' = [inst EXCEPT ![p] =
                  [id |-> r.id, user |-> r.user, role_type |-> r.role_type,
                   is_primary |-> b, adding |-> FALSE]]
    /\ pc' = [pc EXCEPT ![p] = "save"]
    /\ UNCHANGED <<roles, last>>
    /\ UNCHANGED_nonRole

\* Lines 96-97: if self.is_primary: filter(...).update(...)
Role_save_demote(p) ==
    /\ pc[p] = "save"
    /\ inst[p].is_primary
    /\ roles' = Role_update(roles, inst[p].user)
    /\ pc' = [pc EXCEPT ![p] = "super"]
    /\ UNCHANGED <<inst, last>>
    /\ UNCHANGED_nonRole

\* Line 98: super().save(*args, **kwargs)
Role_save_persist(p) ==
    /\ \/ pc[p] = "super"
       \/ pc[p] = "save" /\ ~inst[p].is_primary
    /\ LET s == Role_super_save(roles, inst[p])
       IN /\ roles' = s.rows
          /\ last' = Done("Role.save", s.outcome, inst[p].id, inst[p], {})
    /\ pc' = [pc EXCEPT ![p] = "idle"]
    /\ inst' = [inst EXCEPT ![p] = NoInst]
    /\ UNCHANGED_nonRole

\* ---------------------------------------------------------------- slugify
\* Text is a sequence of characters, one per class slugify tells apart: "a"
\* and "1" are lower-case word characters, "B" an upper-case letter, "_" the
\* underscore, " " white space, "-" the hyphen and "!" punctuation.
Chars == {"a", "1", "B", "_", " ", "-", "!"}
Texts(n) == UNION {[1..k -> Chars] : k \in 0..n}

lower(c) == IF c = "B" THEN "b" ELSE c
IsWord(c) == c \in {"a", "b", "1", "_"}
IsSep(c) == c \in {" ", "-"}
MapSeq(s, F(_)) == [k \in 1..Len(s) |-> F(s[k])]

\* re.sub(r"[^\w\s-]", "", value.lower())
Kept(c) == IsWord(c) \/ IsSep(c)
RemoveOther(s) == SelectSeq(MapSeq(s, lower), Kept)

\* re.sub(r"[-\s]+", "-", value): every run of hyphens and white space
\* becomes one hyphen.
RECURSIVE CollapseSeps(_)
CollapseSeps(s) ==
    IF s = <<>> THEN <<>>
    ELSE IF IsSep(Head(s))
         THEN IF Len(s) > 1 /\ IsSep(s[2])
              THEN CollapseSeps(Tail(s))
              ELSE <<"-">> \o CollapseSeps(Tail(s))
         ELSE <<Head(s)>> \o CollapseSeps(Tail(s))

\* .strip("-_")
RECURSIVE LStrip(_)
LStrip(s) ==
    IF s # <<>> /\ Head(s) \in {"-", "_"} THEN LStrip(Tail(s)) ELSE s
RECURSIVE RStrip(_)
RStrip(s) ==
    IF s # <<>> /\ s[Len(s)] \in {"-", "_"}
    THEN RStrip(SubSeq(s, 1, Len(s) - 1)) ELSE s

\* django.utils.text.slugify(value) (allow_unicode=False).
slugify(s) == RStrip(LStrip(CollapseSeps(RemoveOther(s))))

\* uuid.uuid4().hex[:8]: eight hexadecimal digits, drawn at random.
HexSuffixes == {<<"a", "1", "a", "1", "a", "1", "a", "1">>,
                <<"1", "a", "1", "a", "1", "a", "1", "a">>}

\* ---------------------------------------------------------- slugged models
\* A unique=True column: another row holds the value.
UniqueColumn(rows, i, v) == \E r \in rows : r.id # i.id /\ r.slug = v

Upsert(rows, row) == {r \in rows : r.id # row.id} \cup {row}

UNCHANGED_but(t) ==
    /\ IF t = "users" THEN TRUE ELSE UNCHANGED users
    /\ IF t = "roles" THEN TRUE ELSE UNCHANGED roles
    /\ IF t = "profiles" THEN TRUE ELSE UNCHANGED profiles
    /\ IF t = "works" THEN TRUE ELSE UNCHANGED works
    /\ IF t = "images" THEN TRUE ELSE UNCHANGED images
    /\ IF t = "user_feeds" THEN TRUE ELSE UNCHANGED user_feeds
    /\ IF t = "artisan_feeds" THEN TRUE ELSE UNCHANGED artisan_feeds
    /\ IF t = "comments" THEN TRUE ELSE UNCHANGED comments
    /\ IF t = "reactions" THEN TRUE ELSE UNCHANGED reactions
    /\ IF t = "reports" THEN TRUE ELSE UNCHANGED reports
    /\ IF t = "proposals" THEN TRUE ELSE UNCHANGED proposals
    /\ UNCHANGED <<nulls_distinct, pc, inst>>

\* ArtisanProfile.save(): i is the instance, [id, user, business_name, slug].
\* user is a OneToOneField (unique), slug is unique=True.
ArtisanProfile_slug(i) ==
    IF i.slug = <<>>
    THEN slugify(i.business_name \o <<"-">> \o Row(users, i.user).username)
    ELSE i.slug
ArtisanProfile_save(i) ==
    /\ i.user \in Ids(users)
    /\ LET row == [id |-> i.id, user |-> i.user,
                   business_name |-> i.business_name,
                   slug |-> ArtisanProfile_slug(i)]
           bad == \/ UniqueColumn(profiles, i, row.slug)
                  \/ \E r \in profiles : r.id # i.id /\ r.user = i.user
       IN /\ profiles' = IF bad THEN profiles ELSE Upsert(profiles, row)
          /\ last' = Done("ArtisanProfile.save",
                          IF bad THEN "IntegrityError" ELSE "ok",
                          i.id, i, {})
    /\ UNCHANGED_but("profiles")

\* ArtisanWork.save(), UserFeed.save(), ArtisanFeed.save(): the slug column
\* is SlugField(max_length=255, blank=True), with no unique constraint.
TitleSlug(i, hex) ==
    IF i.slug = <<>> THEN slugify(i.title \o <<"-">> \o hex) ELSE i.slug

ArtisanWork_save(i, hex) ==
    /\ LET row == [id |-> i.id, artisan |-> i.artisan, title |-> i.title,
                   slug |-> TitleSlug(i, hex)]
           bad == i.artisan \notin Ids(profiles)
       IN /\ works' = IF bad THEN works ELSE Upsert(works, row)
          /\ last' = Done("ArtisanWork.save",
                          IF bad THEN "IntegrityError" ELSE "ok",
                          i.id, i, {})
    /\ UNCHANGED_but("works")

UserFeed_save(i, hex) ==
    /\ LET row == [id |-> i.id, user |-> i.user, title |-> i.title,
                   slug |-> TitleSlug(i, hex)]
           bad == i.user \notin Ids(users)
       IN /\ user_feeds' = IF bad THEN user_feeds ELSE Upsert(user_feeds, row)
          /\ last' = Done("UserFeed.save",
                          IF bad THEN "IntegrityError" ELSE "ok",
                          i.id, i, {})
    /\ UNCHANGED_but("user_feeds")

ArtisanFeed_save(i, hex) ==
    /\ LET row == [id |-> i.id, artisan |-> i.artisan, title |-> i.title,
                   slug |-> TitleSlug(i, hex)]
           bad == i.artisan \notin Ids(profiles)
       IN /\ artisan_feeds' =
               IF bad THEN artisan_feeds ELSE Upsert(artisan_feeds, row)
          /\ last' = Done("ArtisanFeed.save",
                          IF bad THEN "IntegrityError" ELSE "ok",
                          i.id, i, {})
    /\ UNCHANGED_but("artisan_feeds")

\* ------------------------------------------------- Comment, Reaction, Report
COMMENT_TYPE_CHOICES == {"USER_FEED", "ARTISAN_FEED"}
REACTION_TYPES == {"LIKE", "DISLIKE"}
Reaction_CONTENT_TYPE_CHOICES == {"USER_FEED", "ARTISAN_FEED", "COMMENT"}
Report_CONTENT_TYPE_CHOICES == {"USER_FEED", "ARTISAN_FEED", "COMMENT", "USER"}
Report_STATUS_CHOICES == {"PENDING", "UNDER_REVIEW", "RESOLVED", "DISMISSED"}
Proposal_STATUS_CHOICES == {"PENDING", "ACCEPTED", "REJECTED", "WITHDRAWN"}

\* A foreign key names a stored row; a nullable one may be NULL.
FK(v, rows) == v \in Ids(rows)
NullableFK(v, rows) == v = NULL \/ v \in Ids(rows)

Outcome(bad) == IF bad THEN "IntegrityError" ELSE "ok"

\* ArtisanWorkImage: plain Model.save().
ArtisanWorkImage_save(i) ==
    /\ LET bad == ~FK(i.work, works)
       IN /\ images' = IF bad THEN images
                       ELSE Upsert(images, [id |-> i.id, work |-> i.work])
          /\ last' = Done("ArtisanWorkImage.save", Outcome(bad), i.id, i, {})
    /\ UNCHANGED_but("images")

\* Comment: plain Model.save(); the schema holds the foreign keys and nothing
\* that ties them to comment_type.
CommentRow(i) ==
    [id |-> i.id, user |-> i.user, comment_type |-> i.comment_type,
     user_feed |-> i.user_feed, artisan_feed |-> i.artisan_feed,
     parent_comment |-> i.parent_comment]
Comment_save(i) ==
    /\ LET bad == \/ ~FK(i.user, users)
                  \/ ~NullableFK(i.user_feed, user_feeds)
                  \/ ~NullableFK(i.artisan_feed, artisan_feeds)
                  \/ ~NullableFK(i.parent_comment, comments)
       IN /\ comments' = IF bad THEN comments
                         ELSE Upsert(comments, CommentRow(i))
          /\ last' = Done("Comment.save", Outcome(bad), i.id, i, {})
    /\ UNCHANGED_but("comments")

\* unique_together = [['user', 'content_type', 'user_feed', 'artisan_feed',
\* 'comment']] is a UNIQUE constraint over nullable columns.  Two rows
\* collide when they agree on every column; whether two NULLs agree is the
\* storage engine's choice (nulls_distinct: PostgreSQL, MySQL and SQLite
\* keep NULLs distinct, so a row with a NULL column collides with none).
SameKey(a, b, nd) == a = b /\ (nd => a # NULL)
Reaction_unique_together(rs, i, nd) ==
    \E r \in rs :
        /\ r.id # i.id
        /\ r.user = i.user
        /\ r.content_type = i.content_type
        /\ SameKey(r.user_feed, i.user_feed, nd)
        /\ SameKey(r.artisan_feed, i.artisan_feed, nd)
        /\ SameKey(r.comment, i.comment, nd)

ReactionRow(i) ==
    [id |-> i.id, user |-> i.user, reaction_type |-> i.reaction_type,
     content_type |-> i.content_type, user_feed |-> i.user_feed,
     artisan_feed |-> i.artisan_feed, comment |-> i.comment]
Reaction_save(i) ==
    /\ LET bad == \/ ~FK(i.user, users)
                  \/ ~NullableFK(i.user_feed, user_feeds)
                  \/ ~NullableFK(i.artisan_feed, artisan_feeds)
                  \/ ~NullableFK(i.comment, comments)
                  \/ Reaction_unique_together(reactions, i, nulls_distinct)
       IN /\ reactions' = IF bad THEN reactions
                          ELSE Upsert(reactions, ReactionRow(i))
          /\ last' = Done("Reaction.save", Outcome(bad), i.id, i, {})
    /\ UNCHANGED_but("reactions")

ReportRow(i) ==
    [id |-> i.id, reporter |-> i.reporter, content_type |-> i.content_type,
     user_feed |-> i.user_feed, artisan_feed |-> i.artisan_feed,
     comment |-> i.comment, reported_user |-> i.reported_user,
     status |-> i.status, reviewed_by |-> i.reviewed_by]
Report_save(i) ==
    /\ LET bad == \/ ~FK(i.reporter, users)
                  \/ ~NullableFK(i.user_feed, user_feeds)
                  \/ ~NullableFK(i.artisan_feed, artisan_feeds)
                  \/ ~NullableFK(i.comment, comments)
                  \/ ~NullableFK(i.reported_user, users)
                  \/ ~NullableFK(i.reviewed_by, users)
       IN /\ reports' = IF bad THEN reports
                        ELSE Upsert(reports, ReportRow(i))
          /\ last' = Done("Report.save", Outcome(bad), i.id, i, {})
    /\ UNCHANGED_but("reports")

\* ------------------------------------------------------- ArtisanProposal
\* unique_together = [['user_feed', 'artisan']]: both columns are NOT NULL.
ArtisanProposal_unique_together_withStatus(rs, i) ==
    \E r \in rs : r.id # i.id /\ r.user_feed = i.user_feed
                  /\ r.artisan = i.artisan /\ r.status = i.status
ArtisanProposal_unique_together(rs, i) ==
    \E r \in rs : r.id # i.id /\ r.user_feed = i.user_feed
                  /\ r.artisan = i.artisan

ProposalRow(i) == [id |-> i.id, user_feed |-> i.user_feed,
                   artisan |-> i.artisan, status |-> i.status]
ArtisanProposal_save(i) ==
    /\ LET bad == \/ ~FK(i.user_feed, user_feeds)
                  \/ ~FK(i.artisan, profiles)
                  \/ ArtisanProposal_unique_together(proposals, i)
       IN /\ proposals' = IF bad THEN proposals
                          ELSE Upsert(proposals, ProposalRow(i))
          /\ last' = Done("ArtisanProposal.save", Outcome(bad), i.id, i, {})
    /\ UNCHANGED_but("proposals")

\* ------------------------------------------------------------ User.delete
\* Model.delete() hands the row to the deletion Collector: it gathers every
\* row that reaches the deleted ones through an on_delete=CASCADE key, then
\* removes them all and nulls the on_delete=SET_NULL keys that point at
\* them.  D holds the ids gathered so far, per table.
Nothing ==
    [users |-> {}, roles |-> {}, profiles |-> {}, works |-> {}, images |-> {},
     user_feeds |-> {}, artisan_feeds |-> {}, comments |-> {},
     reactions |-> {}, reports |-> {}, proposals |-> {}]

Dependents(D) ==
    [users |-> D.users,
     roles |-> D.roles \cup {r.id : r \in {x \in roles : x.user \in D.users}},
     profiles |-> D.profiles
        \cup {r.id : r \in {x \in profiles : x.user \in D.users}},
     works |-> D.works
        \cup {r.id : r \in {x \in works : x.artisan \in D.profiles}},
     images |-> D.images
        \cup {r.id : r \in {x \in images : x.work \in D.works}},
     user_feeds |-> D.user_feeds
        \cup {r.id : r \in {x \in user_feeds : x.user \in D.users}},
     artisan_feeds |-> D.artisan_feeds
        \cup {r.id : r \in {x \in artisan_feeds : x.artisan \in D.profiles}},
     comments |-> D.comments
        \cup {r.id : r \in {x \in comments :
                 \/ x.user \in D.users
                 \/ x.user_feed \in D.user_feeds
                 \/ x.artisan_feed \in D.artisan_feeds
                 \/ x.parent_comment \in D.comments}},
     reactions |-> D.reactions
        \cup {r.id : r \in {x \in reactions :
                 \/ x.user \in D.users
                 \/ x.user_feed \in D.user_feeds
                 \/ x.artisan_feed \in D.artisan_feeds
                 \/ x.comment \in D.comments}},
     reports |-> D.reports
        \cup {r.id : r \in {x \in reports :
                 \/ x.reporter \in D.users
                 \/ x.user_feed \in D.user_feeds
                 \/ x.artisan_feed \in D.artisan_feeds
                 \/ x.comment \in D.comments
                 \/ x.reported_user \in D.users}},
     proposals |-> D.proposals
        \cup {r.id : r \in {x \in proposals :
                 \/ x.user_feed \in D.user_feeds
                 \/ x.artisan \in D.profiles}}]

\* Collector.collect: dependents of dependents, until none is new.
RECURSIVE Collect(_)
Collect_directOnly(D) == Dependents(D)
Collect(D) ==
    LET E == Dependents(D) IN IF E = D THEN D ELSE Collect(E)

Without(rows, gone) == {r \in rows : r.id \notin gone}

\* Report.reviewed_by is on_delete=models.SET_NULL.
Report_reviewed_by_cascades(rs, gone) ==
    {r \in rs : r.reviewed_by \notin gone}
Report_reviewed_by_SET_NULL(rs, gone) ==
    {IF r.reviewed_by \in gone THEN [r EXCEPT !.reviewed_by = NULL] ELSE r
       : r \in rs}

\* The rows gathered, each with its table's name (for the history variable).
Gathered(D) ==
    {<<"users", r>> : r \in {x \in users : x.id \in D.users}}
    \cup {<<"roles", r>> : r \in {x \in roles : x.id \in D.roles}}
    \cup {<<"profiles", r>> : r \in {x \in profiles : x.id \in D.profiles}}
    \cup {<<"works", r>> : r \in {x \in works : x.id \in D.works}}
    \cup {<<"images", r>> : r \in {x \in images : x.id \in D.images}}
    \cup {<<"user_feeds", r>> :
             r \in {x \in user_feeds : x.id \in D.user_feeds}}
    \cup {<<"artisan_feeds", r>> :
             r \in {x \in artisan_feeds : x.id \in D.artisan_feeds}}
    \cup {<<"comments", r>> : r \in {x \in comments : x.id \in D.comments}}
    \cup {<<"reactions", r>> : r \in {x \in reactions : x.id \in D.reactions}}
    \cup {<<"reports", r>> : r \in {x \in reports : x.id \in D.reports}}
    \cup {<<"proposals", r>> : r \in {x \in proposals : x.id \in D.proposals}}

User_delete(u) ==
    /\ u \in Ids(users)
    /\ LET D == Collect([Nothing EXCEPT !.users = {u}])
           kept == Without(reports, D.reports)
       IN /\ users' = Without(users, D.users)
          /\ roles' = Without(roles, D.roles)
          /\ profiles' = Without(profiles, D.profiles)
          /\ works' = Without(works, D.works)
          /\ images' = Without(images, D.images)
          /\ user_feeds' = Without(user_feeds, D.user_feeds)
          /\ artisan_feeds' = Without(artisan_feeds, D.artisan_feeds)
          /\ comments' = Without(comments, D.comments)
          /\ reactions' = Without(reactions, D.reactions)
          /\ reports' = Report_reviewed_by_SET_NULL(kept, D.users)
          /\ proposals' = Without(proposals, D.proposals)
          /\ last' = [Done("User.delete", "ok", u, NoArg, {}) EXCEPT
                        !.removed = Gathered(D),
                        !.nulled = {r.id : r \in
                                      {x \in kept : x.reviewed_by \in D.users}}]
    /\ UNCHANGED <<nulls_distinct, pc, inst>>

\* ------------------------------------------------------------------- Init
\* The empty database.  nulls_distinct is the storage engine's treatment of
\* NULL in a UNIQUE constraint; Init takes the engines the project runs on by
\* default (SQLite, PostgreSQL, MySQL), InitAnyEngine any engine.
InitDb ==
    /\ users = {} /\ roles = {} /\ profiles = {} /\ works = {} /\ images = {}
    /\ user_feeds = {} /\ artisan_feeds = {} /\ comments = {}
    /\ reactions = {} /\ reports = {} /\ proposals = {}
    /\ pc = [p \in Procs |-> "idle"]
    /\ inst = [p \in Procs |-> NoInst]
    /\ last = Done("", "ok", NULL, NoArg, {})
Init == InitDb /\ nulls_distinct = TRUE
InitAnyEngine == InitDb /\ nulls_distinct \in BOOLEAN

\* ------------------------------------------------- saves of slugged models
\* What a caller passes: a new instance, or a stored row with its name or
\* title assigned and its slug either left alone or assigned.  was is the
\* slug the row had when the caller loaded it (history, not a model field).
Names == Texts(MaxLen) \ {<<>>}
\* The names and titles an update assigns.
Renames == {<<"a">>, <<"!">>}
\* uuid4 is drawn only when the slug is generated.
HexFor(i) == IF i.slug = <<>> THEN HexSuffixes ELSE {<<>>}
Usernames == {DefaultUsername, <<"_">>}
SlugInputs == {<<>>, <<"a">>}

NewProfiles ==
    IF Fresh(profiles) = {} THEN {}
    ELSE {[id |-> Min(Fresh(profiles)), user |-> u, business_name |-> n,
           slug |-> g, was |-> <<>>, adding |-> TRUE]
            : u \in Ids(users), n \in Names, g \in SlugInputs}
StoredProfiles ==
    UNION {{[id |-> r.id, user |-> r.user, business_name |-> n, slug |-> g,
             was |-> r.slug, adding |-> FALSE] : n \in Renames, g \in {r.slug} \cup SlugInputs}
             : r \in profiles}

NewTitled(rows, owners) ==
    IF Fresh(rows) = {} THEN {}
    ELSE {[id |-> Min(Fresh(rows)), owner |-> o, title |-> n, slug |-> g,
           was |-> <<>>, adding |-> TRUE] : o \in owners, n \in Names, g \in SlugInputs}
StoredTitled(rows, Owner(_)) ==
    UNION {{[id |-> r.id, owner |-> Owner(r), title |-> n, slug |-> g,
             was |-> r.slug, adding |-> FALSE] : n \in Renames, g \in {r.slug} \cup SlugInputs}
             : r \in rows}
OfArtisan(r) == r.artisan
OfUser(r) == r.user
AsArtisan(i) == [id |-> i.id, artisan |-> i.owner, title |-> i.title,
                 slug |-> i.slug, was |-> i.was, adding |-> i.adding]
AsUser(i) == [id |-> i.id, user |-> i.owner, title |-> i.title,
              slug |-> i.slug, was |-> i.was, adding |-> i.adding]

NextSlug ==
    \/ \E u \in UserIds, n \in Usernames : RoomFor(MaxTotal) /\ CreateUser(u, n)
    \/ \E i \in NewProfiles : RoomFor(MaxTotal) /\ ArtisanProfile_save(i)
    \/ \E i \in StoredProfiles : ArtisanProfile_save(i)
    \/ \E i \in NewTitled(works, Ids(profiles)) : \E h \in HexFor(i) :
          RoomFor(MaxTotal) /\ ArtisanWork_save(AsArtisan(i), h)
    \/ \E i \in StoredTitled(works, OfArtisan) : \E h \in HexFor(i) :
          ArtisanWork_save(AsArtisan(i), h)
    \/ \E i \in NewTitled(user_feeds, Ids(users)) : \E h \in HexFor(i) :
          RoomFor(MaxTotal) /\ UserFeed_save(AsUser(i), h)
    \/ \E i \in StoredTitled(user_feeds, OfUser) : \E h \in HexFor(i) :
          UserFeed_save(AsUser(i), h)
    \/ \E i \in NewTitled(artisan_feeds, Ids(profiles)) : \E h \in HexFor(i) :
          RoomFor(MaxTotal) /\ ArtisanFeed_save(AsArtisan(i), h)
    \/ \E i \in StoredTitled(artisan_feeds, OfArtisan) : \E h \in HexFor(i) :
          ArtisanFeed_save(AsArtisan(i), h)

SpecSlug == Init /\ [][NextSlug]_vars

\* ------------------------------------------------------- plain inputs
\* Where the names do not matter: one title, no slug supplied, one suffix,
\* and a username of its own for every user.
DefaultTitle == <<"a">>
DefaultHex == <<"a", "1", "a", "1", "a", "1", "a", "1">>
PlainUsername(u) == [k \in 1..u |-> "a"]
FreshUsers == UserIds \ Ids(users)
NewUser == \E u \in FreshUsers : u = Min(FreshUsers) /\ CreateUser(u, PlainUsername(u))

PlainProfiles ==
    IF Fresh(profiles) = {} THEN {}
    ELSE {[id |-> Min(Fresh(profiles)), user |-> u,
           business_name |-> DefaultTitle, slug |-> <<>>, was |-> <<>>,
           adding |-> TRUE] : u \in Ids(users)}
PlainTitled(rows, owners) ==
    IF Fresh(rows) = {} THEN {}
    ELSE {[id |-> Min(Fresh(rows)), owner |-> o, title |-> DefaultTitle,
           slug |-> <<>>, was |-> <<>>, adding |-> TRUE] : o \in owners}

OrNull(rows) == {NULL} \cup Ids(rows)

NewImages ==
    IF Fresh(images) = {} THEN {}
    ELSE {[id |-> Min(Fresh(images)), work |-> w] : w \in Ids(works)}
NewComments(types) ==
    IF Fresh(comments) = {} THEN {}
    ELSE {[id |-> Min(Fresh(comments)), user |-> u, comment_type |-> t,
           user_feed |-> f, artisan_feed |-> a, parent_comment |-> c]
            : u \in Ids(users), t \in types, f \in OrNull(user_feeds),
              a \in OrNull(artisan_feeds), c \in OrNull(comments)}
NewReactions(rtypes, ctypes) ==
    IF Fresh(reactions) = {} THEN {}
    ELSE {[id |-> Min(Fresh(reactions)), user |-> u, reaction_type |-> rt,
           content_type |-> t, user_feed |-> f, artisan_feed |-> a,
           comment |-> c]
            : u \in Ids(users), rt \in rtypes, t \in ctypes,
              f \in OrNull(user_feeds), a \in OrNull(artisan_feeds),
              c \in OrNull(comments)}
NewReports(ctypes) ==
    IF Fresh(reports) = {} THEN {}
    ELSE {[id |-> Min(Fresh(reports)), reporter |-> u, content_type |-> t,
           user_feed |-> f, artisan_feed |-> a, comment |-> c,
           reported_user |-> ru, status |-> "PENDING", reviewed_by |-> rb]
            : u \in Ids(users), t \in ctypes, f \in OrNull(user_feeds),
              a \in OrNull(artisan_feeds), c \in OrNull(comments),
              ru \in OrNull(users), rb \in OrNull(users)}
\* A stored report as a moderator writes it back: status and reviewed_by
\* assigned, report.save().
StoredReports ==
    {[r EXCEPT !.status = st, !.reviewed_by = rb]
       : r \in reports, st \in Report_STATUS_CHOICES, rb \in OrNull(users)}
NewProposals ==
    IF Fresh(proposals) = {} THEN {}
    ELSE {[id |-> Min(Fresh(proposals)), user_feed |-> f, artisan |-> a,
           status |-> st, adding |-> TRUE]
            : f \in Ids(user_feeds), a \in Ids(profiles),
              st \in Proposal_STATUS_CHOICES}
StoredProposals ==
    {[id |-> r.id, user_feed |-> f, artisan |-> a, status |-> st,
      adding |-> FALSE]
       : r \in proposals, f \in Ids(user_feeds), a \in Ids(profiles),
         st \in Proposal_STATUS_CHOICES}

NewProfile == \E i \in PlainProfiles : ArtisanProfile_save(i)
NewWork ==
    \E i \in PlainTitled(works, Ids(profiles)) :
        ArtisanWork_save(AsArtisan(i), DefaultHex)
NewUserFeed ==
    \E i \in PlainTitled(user_feeds, Ids(users)) :
        UserFeed_save(AsUser(i), DefaultHex)
NewArtisanFeed ==
    \E i \in PlainTitled(artisan_feeds, Ids(profiles)) :
        ArtisanFeed_save(AsArtisan(i), DefaultHex)

\* ------------------------------------------------------------- proposals
NextProposal ==
    \/ RoomFor(ProposalTotal) /\ NewUser
    \/ RoomFor(ProposalTotal) /\ NewProfile
    \/ RoomFor(ProposalTotal) /\ NewUserFeed
    \/ \E i \in NewProposals : RoomFor(ProposalTotal) /\ ArtisanProposal_save(i)
    \/ \E i \in StoredProposals : ArtisanProposal_save(i)

SpecProposal == Init /\ [][NextProposal]_vars

\* ------------------------------------------- comments, reactions, reports
NextEngage ==
    \/ RoomFor(EngageTotal) /\ NewUser
    \/ RoomFor(EngageTotal) /\ NewProfile
    \/ RoomFor(EngageTotal) /\ NewUserFeed
    \/ RoomFor(EngageTotal) /\ NewArtisanFeed
    \/ RoomFor(EngageTotal) /\ \E i \in NewComments(COMMENT_TYPE_CHOICES) :
                                   Comment_save(i)
    \/ RoomFor(EngageTotal)
          /\ \E i \in NewReactions(REACTION_TYPES,
                                    Reaction_CONTENT_TYPE_CHOICES) :
                 Reaction_save(i)
    \/ RoomFor(EngageTotal) /\ \E i \in NewReports(Report_CONTENT_TYPE_CHOICES) :
                                   Report_save(i)

SpecEngage == InitAnyEngine /\ [][NextEngage]_vars

\* ------------------------------------------------ the moderation of reports
\* Users report users; stored reports are written back with a status.
NextReport ==
    \/ NewUser
    \/ \E i \in {x \in NewReports({"USER"}) :
                   /\ x.user_feed = NULL /\ x.artisan_feed = NULL
                   /\ x.comment = NULL
                   /\ x.reported_user # NULL /\ x.reviewed_by = NULL} :
          Report_save(i)
    \/ \E i \in StoredReports : Report_save(i)

SpecReport == Init /\ [][NextReport]_vars

\* ------------------------------------------------------- deleting users
\* Every table is written, then users are deleted.  The Collector reads the
\* foreign keys only, so the flags take one value each, and a comment,
\* reaction or report is given one target, named by its discriminator, or
\* none.
Targets(r, keys) == {k \in keys : r[k] # NULL}
TypeOf(k) ==
    CASE k = "user_feed" -> "USER_FEED"
      [] k = "artisan_feed" -> "ARTISAN_FEED"
      [] k = "comment" -> "COMMENT"
      [] k = "reported_user" -> "USER"
Discriminated(r, type, keys) ==
    \/ \E k \in keys : Targets(r, keys) = {k} /\ type = TypeOf(k)
    \/ Targets(r, keys) = {} /\ type = "USER_FEED"
CommentKeys == {"user_feed", "artisan_feed"}
ReactionKeys == {"user_feed", "artisan_feed", "comment"}
ReportKeys == {"user_feed", "artisan_feed", "comment", "reported_user"}

NextCascade ==
    \/ RoomFor(CascadeTotal) /\ NewUser
    \/ \E i \in {x \in NewRoleInputs :
                   x.role_type = "PLUMBER" /\ ~x.is_primary} :
          RoomFor(CascadeTotal) /\ Role_save(i)
    \/ RoomFor(CascadeTotal) /\ NewProfile
    \/ RoomFor(CascadeTotal) /\ NewWork
    \/ \E i \in NewImages : RoomFor(CascadeTotal) /\ ArtisanWorkImage_save(i)
    \/ RoomFor(CascadeTotal) /\ NewUserFeed
    \/ RoomFor(CascadeTotal) /\ NewArtisanFeed
    \/ \E i \in {x \in NewComments(COMMENT_TYPE_CHOICES) :
                   Discriminated(x, x.comment_type, CommentKeys)} :
          RoomFor(CascadeTotal) /\ Comment_save(i)
    \/ \E i \in {x \in NewReactions({"LIKE"}, Reaction_CONTENT_TYPE_CHOICES) :
                   Discriminated(x, x.content_type, ReactionKeys)} :
          RoomFor(CascadeTotal) /\ Reaction_save(i)
    \/ \E i \in {x \in NewReports(Report_CONTENT_TYPE_CHOICES) :
                   Discriminated(x, x.content_type, ReportKeys)} :
          RoomFor(CascadeTotal) /\ Report_save(i)
    \/ \E i \in {x \in NewProposals : x.status = "PENDING"} :
          RoomFor(CascadeTotal) /\ ArtisanProposal_save(i)
    \/ \E u \in UserIds : User_delete(u)

SpecCascade == Init /\ [][NextCascade]_vars

\* ------------------------------------------- concurrent Role.save requests
NextRole ==
    \/ \E u \in UserIds : CreateUser(u, DefaultUsername)
    \/ \E p \in Procs, u \in UserIds, t \in RoleTypes, b \in BOOLEAN :
          Role_new(p, u, t, b)
    \/ \E p \in Procs, r \in roles, b \in BOOLEAN : Role_get(p, r, b)
    \/ \E p \in Procs : Role_save_demote(p)
    \/ \E p \in Procs : Role_save_persist(p)

SpecRole == Init /\ [][NextRole]_vars

\* ------------------------------------------- sequential Role.save requests
NextRoleSeq ==
    \/ \E u \in UserIds : CreateUser(u, DefaultUsername)
    \/ \E i \in NewRoleInputs \cup LoadedRoleInputs : Role_save(i)

SpecRoleSeq == Init /\ [][NextRoleSeq]_vars

Primaries(u) == {r \in roles : r.user = u /\ r.is_primary}

\* C1: for every user, in every reachable state, at most one stored Role has
\* is_primary = true, also when Role.save calls of the same user interleave
\* their demotion and persist statements.
C1_AtMostOnePrimary ==
    \A u \in UserIds : Cardinality(Primaries(u)) <= 1

\* C2: in a sequential execution, after Role.save succeeds for a role with
\* is_primary = true, that role is stored as primary and every other stored
\* role of the same user is non-primary.
SavedPrimary ==
    /\ last.op = "Role.save" /\ last.outcome = "ok" /\ last.arg.is_primary
C2_SavePrimaryDemotesOthers ==
    SavedPrimary =>
        /\ \E r \in roles : r.id = last.key /\ r.is_primary
                              /\ r.user = last.arg.user
        /\ \A q \in roles : q.user = last.arg.user /\ q.id # last.key
                                  => ~q.is_primary
\* PLUMBER was primary, ELECTRICIAN of the same user has just been saved as
\* primary.
C2_Witness ==
    /\ SavedPrimary
    /\ \E q \in last.pre : /\ q.user = last.arg.user /\ q.id # last.key
                            /\ q.is_primary
                            /\ q.role_type = "PLUMBER"
    /\ last.arg.role_type = "ELECTRICIAN"

\* C3: a write is atomic: when Role.save is rejected the stored roles are
\* exactly what they were before the call.
C3_RejectedSaveChangesNothing ==
    (last.op = "Role.save" /\ last.outcome = "IntegrityError")
        => roles = last.pre

SlugSaves == {"ArtisanProfile.save", "ArtisanWork.save", "UserFeed.save",
              "ArtisanFeed.save"}
SavedTable ==
    CASE last.op = "ArtisanProfile.save" -> profiles
      [] last.op = "ArtisanWork.save" -> works
      [] last.op = "UserFeed.save" -> user_feeds
      [] last.op = "ArtisanFeed.save" -> artisan_feeds
      [] OTHER -> {}

\* C9: for every slugged record and every name or title, the slug is
\* non-empty once the record was created through save with no slug supplied,
\* and a later save that assigns no different slug leaves it unchanged.
C9_SlugNonEmptyAndStable ==
    (last.op \in SlugSaves /\ last.outcome = "ok") =>
        LET row == Row(SavedTable, last.key)
        IN /\ (last.arg.adding /\ last.arg.slug = <<>>) => row.slug # <<>>
           /\ (~last.arg.adding /\ last.arg.slug = last.arg.was)
                  => row.slug = last.arg.was

NoSharedSlug(rows) ==
    \A r1 \in rows, r2 \in rows : r1.id # r2.id => r1.slug # r2.slug

\* C10: no two stored records of the same slugged entity share a slug,
\* generated or supplied: the write that would store a duplicate is rejected.
C10_SlugsUnique ==
    /\ NoSharedSlug(profiles) /\ NoSharedSlug(works)
    /\ NoSharedSlug(user_feeds) /\ NoSharedSlug(artisan_feeds)

\* ---------------------------------------------------- polymorphic targets
\* Exactly one of the record's target keys is non-null, and it is the one its
\* discriminator names.
OneTarget(r, type, keys) ==
    \E k \in keys : Targets(r, keys) = {k} /\ type = TypeOf(k)

SameTarget(a, b) ==
    /\ a.content_type = b.content_type /\ a.user_feed = b.user_feed
    /\ a.artisan_feed = b.artisan_feed /\ a.comment = b.comment

\* C4: for every (user, content_type, target) at most one Reaction is stored:
\* a second Reaction of the same user on the same target (one non-null target
\* key, the one content_type names) is rejected by the unique constraint.
C4_OneReactionPerTarget ==
    \A a \in reactions, b \in reactions :
        (/\ a.id # b.id /\ a.user = b.user /\ SameTarget(a, b)
         /\ OneTarget(a, a.content_type, ReactionKeys)) => FALSE

\* C5: every stored Comment, Reaction and Report has exactly one non-null
\* target key, the one its discriminator names.
C5_OneTargetMatchingDiscriminator ==
    /\ \A r \in comments : OneTarget(r, r.comment_type, CommentKeys)
    /\ \A r \in reactions : OneTarget(r, r.content_type, ReactionKeys)
    /\ \A r \in reports : OneTarget(r, r.content_type, ReportKeys)

\* ---------------------------------------------------------------- proposals
SamePair(a, b) == a.user_feed = b.user_feed /\ a.artisan = b.artisan

\* C6: at most one ArtisanProposal is stored per (user_feed, artisan), and a
\* second proposal of an artisan on a feed it has a proposal on is rejected
\* with a uniqueness violation, the stored proposals unchanged.
C6_OneProposalPerPair ==
    /\ [](\A a \in proposals, b \in proposals : SamePair(a, b) => a = b)
    /\ [][(/\ last'.op = "ArtisanProposal.save"
           /\ last'.arg.adding
           /\ \E r \in proposals : SamePair(r, last'.arg))
          => (last'.outcome = "IntegrityError" /\ proposals' = proposals)]_vars
C6_Witness ==
    /\ last.op = "ArtisanProposal.save" /\ last.outcome = "IntegrityError"
    /\ last.arg.adding
    /\ \E r \in proposals : SamePair(r, last.arg)

\* ------------------------------------------------------------- User.delete
\* No stored record references, through any key, a row that is not stored.
RefIntegrity ==
    /\ \A r \in roles : FK(r.user, users)
    /\ \A r \in profiles : FK(r.user, users)
    /\ \A r \in works : FK(r.artisan, profiles)
    /\ \A r \in images : FK(r.work, works)
    /\ \A r \in user_feeds : FK(r.user, users)
    /\ \A r \in artisan_feeds : FK(r.artisan, profiles)
    /\ \A r \in comments :
          /\ FK(r.user, users) /\ NullableFK(r.user_feed, user_feeds)
          /\ NullableFK(r.artisan_feed, artisan_feeds)
          /\ NullableFK(r.parent_comment, comments)
    /\ \A r \in reactions :
          /\ FK(r.user, users) /\ NullableFK(r.user_feed, user_feeds)
          /\ NullableFK(r.artisan_feed, artisan_feeds)
          /\ NullableFK(r.comment, comments)
    /\ \A r \in reports :
          /\ FK(r.reporter, users) /\ NullableFK(r.user_feed, user_feeds)
          /\ NullableFK(r.artisan_feed, artisan_feeds)
          /\ NullableFK(r.comment, comments)
          /\ NullableFK(r.reported_user, users)
          /\ NullableFK(r.reviewed_by, users)
    /\ \A r \in proposals :
          FK(r.user_feed, user_feeds) /\ FK(r.artisan, profiles)

\* The step deletes user u: u is stored before it and not after it.
Deletes(u) == u \in Ids(users) /\ u \notin Ids(users')

\* What the claim lists as owned by u, read off the state before the delete.
ProfilesOf(u) == {r.id : r \in {x \in profiles : x.user = u}}
WorksOf(u) == {r.id : r \in {x \in works : x.artisan \in ProfilesOf(u)}}
ArtisanFeedsOf(u) ==
    {r.id : r \in {x \in artisan_feeds : x.artisan \in ProfilesOf(u)}}
UserFeedsOf(u) == {r.id : r \in {x \in user_feeds : x.user = u}}
OnFeedsOf(r, u) ==
    r.user_feed \in UserFeedsOf(u) \/ r.artisan_feed \in ArtisanFeedsOf(u)
CommentsUnder(u) ==
    {r.id : r \in {x \in comments : x.user = u \/ OnFeedsOf(x, u)}}
RepliesUnder(u) ==
    {r.id : r \in {x \in comments : x.parent_comment \in CommentsUnder(u)}}

\* C7: deleting a User removes every record it owns, transitively, and
\* afterwards no stored record references the deleted User or a record
\* removed with it.
C7_DeleteCascades ==
    [][\A u \in UserIds : Deletes(u) =>
        /\ \A r \in roles : r.user = u => r.id \notin Ids(roles')
        /\ \A r \in profiles : r.user = u => r.id \notin Ids(profiles')
        /\ \A r \in works : r.id \in WorksOf(u) => r.id \notin Ids(works')
        /\ \A r \in images : r.work \in WorksOf(u) => r.id \notin Ids(images')
        /\ \A r \in artisan_feeds :
              r.id \in ArtisanFeedsOf(u) => r.id \notin Ids(artisan_feeds')
        /\ \A r \in user_feeds : r.user = u => r.id \notin Ids(user_feeds')
        /\ \A r \in comments :
              r.id \in CommentsUnder(u) \cup RepliesUnder(u)
                 => r.id \notin Ids(comments')
        /\ \A r \in reactions :
              (r.user = u \/ OnFeedsOf(r, u)) => r.id \notin Ids(reactions')
        /\ \A r \in reports :
              (r.reporter = u \/ OnFeedsOf(r, u)) => r.id \notin Ids(reports')
        /\ RefIntegrity'
      ]_vars
\* A user was deleted, and with it a comment another user wrote and a reply
\* to that comment.
C7_Witness ==
    /\ last.op = "User.delete"
    /\ \E c \in {x[2] : x \in {y \in last.removed : y[1] = "comments"}} :
          /\ c.user # last.key
          /\ c.user \in Ids(users)
          /\ \E d \in {x[2] : x \in {y \in last.removed : y[1] = "comments"}} :
                d.parent_comment = c.id

\* The rows a report points to through its cascading keys are all stored.
TargetsStored(r) ==
    /\ FK(r.reporter, users) /\ NullableFK(r.reported_user, users)
    /\ NullableFK(r.user_feed, user_feeds)
    /\ NullableFK(r.artisan_feed, artisan_feeds)
    /\ NullableFK(r.comment, comments)

Reviewed(r) == [r EXCEPT !.reviewed_by = NULL]

\* C8, as amended: deleting a User does not delete a Report that references
\* it through reviewed_by when the delete removes none of the rows the Report
\* points to through reporter, reported_user, user_feed, artisan_feed or
\* comment; the Report stays stored with reviewed_by empty and every other
\* field unchanged.
C8_ReviewerDeleteKeepsReport ==
    [][\A u \in UserIds : Deletes(u) =>
          \A r \in reports :
              (r.reviewed_by = u /\ TargetsStored(r)') => Reviewed(r) \in reports'
      ]_vars
C8_Witness ==
    /\ last.op = "User.delete"
    /\ \E r \in reports :
          /\ r.id \in last.nulled /\ r.reviewed_by = NULL
          /\ r.content_type = "USER_FEED" /\ r.user_feed # NULL

\* u owns the content a report is about: the feed, the artisan feed (through
\* the profile) or the comment is u's.
OwnsReported(u, r) ==
    \/ \E f \in user_feeds : f.id = r.user_feed /\ f.user = u
    \/ \E f \in artisan_feeds : /\ f.id = r.artisan_feed
                                /\ f.artisan \in ProfilesOf(u)
    \/ \E c \in comments : c.id = r.comment /\ c.user = u

\* C8, as claimed: the Report is kept whenever the deleted User is its
\* reviewer and neither its reporter, its reported_user nor the owner of the
\* reported content.  (Stated for reports and comments whose targets match
\* their discriminators.)
C8_ReviewerOnlyKeepsReport ==
    [][\A u \in UserIds : Deletes(u) =>
          \A r \in reports :
              (/\ r.reviewed_by = u
               /\ r.reporter # u /\ r.reported_user # u /\ ~OwnsReported(u, r)
               /\ OneTarget(r, r.content_type, ReportKeys)
               /\ \A c \in comments :
                     c.id = r.comment =>
                        /\ OneTarget(c, c.comment_type, CommentKeys)
                        /\ c.parent_comment = NULL)
              => Reviewed(r) \in reports'
      ]_vars

\* ------------------------------------------------------------ report status
ReportWorkflow ==
    {<<"PENDING", "UNDER_REVIEW">>, <<"UNDER_REVIEW", "RESOLVED">>,
     <<"UNDER_REVIEW", "DISMISSED">>}

\* C11: no write to a Report changes its status other than from PENDING to
\* UNDER_REVIEW or from UNDER_REVIEW to RESOLVED or DISMISSED.
C11_ReportStatusWorkflow ==
    [][\A r \in reports : \A q \in reports' :
          (q.id = r.id /\ q.status # r.status)
              => <<r.status, q.status>> \in ReportWorkflow]_vars

\* ---------------------------------------------------------- proposal status
ProposalFinal == {"ACCEPTED", "REJECTED", "WITHDRAWN"}

\* C12: a proposal is PENDING when first stored, and a write changes its
\* status only from PENDING to ACCEPTED, REJECTED or WITHDRAWN.
C12_ProposalStatusLifecycle ==
    [][\A q \in proposals' :
          /\ q.id \notin Ids(proposals) => q.status = "PENDING"
          /\ \A r \in proposals :
                (q.id = r.id /\ q.status # r.status)
                    => (r.status = "PENDING" /\ q.status \in ProposalFinal)
      ]_vars

\* ------------------------------------------------- what Role.save leaves be
OtherThan(rs, k) == {r \in rs : r.id # k}
OfOthers(rs, u) == {r \in rs : r.user # u}

\* C13: Role.save changes no stored role of a user other than the saved
\* role's user, and with is_primary = false it changes no stored role other
\* than the one being saved.
C13_RoleSaveFrame ==
    last.op = "Role.save" =>
        /\ OfOthers(roles, last.arg.user) = OfOthers(last.pre, last.arg.user)
        /\ ~last.arg.is_primary
              => OtherThan(roles, last.key) = OtherThan(last.pre, last.key)
\* A user's only primary role has just been saved with is_primary = false:
\* the user has no primary role left, their other role and the other user's
\* primary role are as they were.
C13_Witness ==
    /\ last.op = "Role.save" /\ last.outcome = "ok" /\ ~last.arg.is_primary
    /\ \E r \in last.pre : r.id = last.key /\ r.is_primary
    /\ Primaries(last.arg.user) = {}
    /\ OtherThan(OfOthers(last.pre, last.arg.user), NULL) # {}
    /\ \E q \in roles : q.user # last.arg.user /\ q.is_primary
    /\ \E q \in roles : q.user = last.arg.user /\ q.id # last.key

====
